---- MODULE Spec2Model ----
(***************************************************************************)
(* A model of the TikTok ingestion pipeline: the two management commands   *)
(* scrape_tiktok (profile pass) and scrape_comments (comment pass), the    *)
(* comment fetcher they use, and the store they reconcile into.            *)
(***************************************************************************)
EXTENDS Integers, Sequences, FiniteSets, TLC

(***************************************************************************)
(* Bounds of the model.                                                    *)
(***************************************************************************)
MaxBatch == 2
MaxVideos == 2

(***************************************************************************)
(* Values.  None is Python's None / SQL NULL.                              *)
(***************************************************************************)
None == "None"
GroupNames == {"g1", "g2"}
Usernames == {"p1", "p2"}
VideoIds == {"v1", "v2"}
TopIds == {"c1", "c2"}
ReplyIds == {"c2", "c3"}
CommentIds == TopIds \cup ReplyIds

VARIABLES
    cmd,          \* the management command that is running
    groups,       \* Group table: the set of stored names
    profiles,     \* TikTokProfile table: username -> row
    videos,       \* TikTokVideo table: video_id -> row
    comments,     \* TikTokComment table: comment_id -> row
    rows,         \* the natural key of each row of the four tables, in id order
    items,        \* the items handle() selected, in processing order
    idx,          \* enumerate(..., 1) index of the current item
    pc,           \* position of handle(): "item", "delay", "done", "aborted"
    sinceFetch,   \* what happened last: "start", "fetched" or "slept"
    last,         \* the last item's fetched data and outcome
    options,      \* the command line: [from_date, days]
    now,          \* timezone.now() when handle() started
    cutoff_date,  \* handle()'s cutoff_date
    ytdlp,        \* what the last subprocess.run of yt-dlp gave
    scraped,      \* what the last scrape_profile_ytdlp returned
    fetchLog,     \* the data fetched for each item of the first run
    runNo,        \* 1 in the first run, 2 when it is run again
    firstRun,     \* the store and position the first run ended with
    scraper,      \* the TikTokCommentScraper: self.aweme_id and its call frames
    wire          \* the requests sent and answered, and the sleeps, in order

vars == <<cmd, groups, profiles, videos, comments, rows, items, idx, pc, sinceFetch, last,
          options, now, cutoff_date, ytdlp, scraped, fetchLog, runNo, firstRun,
          scraper, wire>>

passVars == <<options, now, cutoff_date, ytdlp, scraped>>

fetchVars == <<scraper, wire>>

store == [groups |-> groups, profiles |-> profiles, videos |-> videos, comments |-> comments]

SeqsUpTo(S, n) == UNION {[1..k -> S] : k \in 0..n}

RECURSIVE Flatten(_)
Flatten(seqs) == IF seqs = <<>> THEN <<>> ELSE Head(seqs) \o Flatten(Tail(seqs))

(***************************************************************************)
(* Text.  A text the code slices or converts is a sequence of one-character*)
(* strings; "NA" is <<"N", "A">>.                                          *)
(***************************************************************************)
Digits == <<"0", "1", "2", "3", "4", "5", "6", "7", "8", "9">>

IsDigit(ch) == \E i \in 1..10 : Digits[i] = ch

DigitValue(ch) == (CHOOSE i \in 1..10 : Digits[i] = ch) - 1

RECURSIVE DigitsValue(_)
DigitsValue(text) ==
    IF text = <<>> THEN 0
    ELSE 10 * DigitsValue(SubSeq(text, 1, Len(text) - 1)) + DigitValue(text[Len(text)])

AllDigits(text) == text # <<>> /\ \A i \in 1..Len(text) : IsDigit(text[i])

\* Python's int(text): [ok, value]; not ok is a ValueError.
py_int(text) ==
    IF AllDigits(text) THEN [ok |-> TRUE, value |-> DigitsValue(text)]
    ELSE IF text # <<>> /\ text[1] = "-" /\ AllDigits(Tail(text))
    THEN [ok |-> TRUE, value |-> 0 - DigitsValue(Tail(text))]
    ELSE [ok |-> FALSE, value |-> 0]

\* Python's text[a:b] with 0 <= a <= b: the slice is cut to the text's length.
Slice(text, a, b) ==
    SubSeq(text, a + 1, IF b < Len(text) THEN b ELSE Len(text))

NA == <<"N", "A">>

(***************************************************************************)
(* Dates.  A datetime is a number of ticks: TicksPerDay ticks make a day,  *)
(* and a day is numbered as datetime.date.toordinal() numbers it.          *)
(***************************************************************************)
TicksPerDay == 2

IsLeap(year) == year % 4 = 0 /\ (year % 100 # 0 \/ year % 400 = 0)

DaysInMonth(year, month) ==
    IF month = 2 THEN (IF IsLeap(year) THEN 29 ELSE 28)
    ELSE IF month \in {4, 6, 9, 11} THEN 30 ELSE 31

RECURSIVE DaysBeforeMonth(_, _)
DaysBeforeMonth(year, month) ==
    IF month = 1 THEN 0
    ELSE DaysBeforeMonth(year, month - 1) + DaysInMonth(year, month - 1)

DaysBeforeYear(year) ==
    LET y == year - 1 IN y * 365 + (y \div 4) - (y \div 100) + (y \div 400)

\* datetime(year, month, day): [ok, ticks]; not ok is a ValueError.
datetime(year, month, day) ==
    IF /\ year \in 1..9999
       /\ month \in 1..12
       /\ day \in 1..DaysInMonth(year, month)
    THEN [ok |-> TRUE,
          ticks |-> (DaysBeforeYear(year) + DaysBeforeMonth(year, month) + day)
                    * TicksPerDay]
    ELSE [ok |-> FALSE, ticks |-> 0]

\* The calendar day a datetime falls on.
DayOf(ticks) == ticks \div TicksPerDay

\* text.split(sep) for a text of characters.
RECURSIVE Split(_, _)
Split(text, sep) ==
    IF \A i \in 1..Len(text) : text[i] # sep THEN <<text>>
    ELSE LET at == CHOOSE i \in 1..Len(text) :
                       text[i] = sep /\ \A j \in 1..(i - 1) : text[j] # sep
         IN  <<SubSeq(text, 1, at - 1)>> \o Split(SubSeq(text, at + 1, Len(text)), sep)

\* datetime.strptime(text, "%Y-%m-%d"): [ok, ticks]; not ok is a ValueError.
strptime(text) ==
    LET parts == Split(text, "-")
    IN  IF /\ Len(parts) = 3
           /\ AllDigits(parts[1]) /\ Len(parts[1]) = 4
           /\ AllDigits(parts[2]) /\ Len(parts[2]) \in {1, 2}
           /\ AllDigits(parts[3]) /\ Len(parts[3]) \in {1, 2}
        THEN datetime(DigitsValue(parts[1]), DigitsValue(parts[2]), DigitsValue(parts[3]))
        ELSE [ok |-> FALSE, ticks |-> 0]

(***************************************************************************)
(* Command.handle of scrape_tiktok, lines 70-84: the cutoff.               *)
(* opts is [from_date, days], from_date <<>> when --from-date is not       *)
(* given, and at is timezone.now().                                        *)
(***************************************************************************)
\* The cutoff without the except ValueError: no CommandError is raised.
cutoff_date_unchecked(opts, at) ==
    [error |-> FALSE,
     cutoff |-> IF opts.from_date # <<>> THEN strptime(opts.from_date).ticks
                ELSE at - opts.days * TicksPerDay]

cutoff_date_of(opts, at) ==
    IF opts.from_date # <<>>
    THEN LET parsed == strptime(opts.from_date)
         IN  [error |-> ~parsed.ok, cutoff |-> parsed.ticks]
    ELSE [error |-> FALSE, cutoff |-> at - opts.days * TicksPerDay]

(***************************************************************************)
(* Command.scrape_profile_ytdlp.  run is what subprocess.run gave: exc is  *)
(* the exception it raised ("none" when it returned), stderr the markers   *)
(* found in the lower-cased stderr, stdout the lines of stdout.strip(),    *)
(* each already split at "|" (an empty line is <<>>).                      *)
(***************************************************************************)
count_of(text) ==
    IF text # <<>> /\ text # NA THEN py_int(text) ELSE [ok |-> TRUE, value |-> 0]

\* One line of the output: [video, info]; video is FALSE when the line
\* adds nothing (skipped, filtered out, or an exception was caught).
parse_line(username, parts, cutoff) ==
    LET skip == [video |-> FALSE, info |-> None]
    IN  IF parts = <<>> \/ Len(parts) < 6 THEN skip
        ELSE
        LET video_id == parts[1]
            title == parts[2]
            upload_date_str == parts[3]
            likes == count_of(parts[4])
            views == count_of(parts[5])
            comment_count == count_of(parts[6])
            shares == count_of(IF Len(parts) > 6 THEN parts[7] ELSE NA)
            year == py_int(Slice(upload_date_str, 0, 4))
            month == py_int(Slice(upload_date_str, 4, 6))
            day == py_int(Slice(upload_date_str, 6, 8))
            post_date == datetime(year.value, month.value, day.value)
        IN  IF upload_date_str = <<>> \/ upload_date_str = NA THEN skip
            ELSE IF ~(year.ok /\ month.ok /\ day.ok /\ post_date.ok) THEN skip
            ELSE IF post_date.ticks < cutoff THEN skip
            ELSE IF ~(views.ok /\ likes.ok /\ comment_count.ok /\ shares.ok) THEN skip
            ELSE [video |-> TRUE,
                  info |-> [id |-> video_id,
                            description |-> title,
                            post_date |-> post_date.ticks,
                            play_count |-> views.value,
                            like_count |-> likes.value,
                            comment_count |-> comment_count.value,
                            share_count |-> shares.value,
                            video_url |-> <<username, video_id>>]]

\* The loop left at the first line of fewer than 6 fields.
RECURSIVE parse_output_until_short(_, _, _)
parse_output_until_short(username, lines, cutoff) ==
    IF lines = <<>> \/ Len(Head(lines)) < 6 THEN <<>>
    ELSE LET parsed == parse_line(username, Head(lines), cutoff)
         IN  (IF parsed.video THEN <<parsed.info>> ELSE <<>>)
             \o parse_output_until_short(username, Tail(lines), cutoff)

RECURSIVE parse_output(_, _, _)
parse_output(username, lines, cutoff) ==
    IF lines = <<>> THEN <<>>
    ELSE LET parsed == parse_line(username, Head(lines), cutoff)
         IN  (IF parsed.video THEN <<parsed.info>> ELSE <<>>)
             \o parse_output(username, Tail(lines), cutoff)

\* The output parsed whatever the exit code of yt-dlp is.
scrape_ignoring_returncode(username, cutoff, run) ==
    IF run.exc = "FileNotFoundError" THEN [raised |-> TRUE, videos |-> <<>>]
    ELSE IF run.exc # "none" THEN [raised |-> FALSE, videos |-> <<>>]
    ELSE [raised |-> FALSE, videos |-> parse_output(username, run.stdout, cutoff)]

\* [raised, videos]: raised is the CommandError of a missing yt-dlp.
scrape_profile_ytdlp(username, cutoff, run) ==
    IF run.exc = "FileNotFoundError" THEN [raised |-> TRUE, videos |-> <<>>]
    ELSE IF run.exc # "none" THEN [raised |-> FALSE, videos |-> <<>>]
    ELSE IF /\ run.returncode # 0
            /\ "error:" \in run.stderr
            /\ "warning:" \notin run.stderr
    THEN [raised |-> FALSE, videos |-> <<>>]
    ELSE IF run.returncode # 0 /\ run.stdout = <<>>
    THEN [raised |-> FALSE, videos |-> <<>>]
    ELSE [raised |-> FALSE, videos |-> parse_output(username, run.stdout, cutoff)]

(***************************************************************************)
(* The store (tiktok/models.py).  A row is kept under its natural key; the *)
(* foreign keys hold the natural key of the row they point at.  The        *)
(* pass-through text columns of a comment (nickname, content, avatar,      *)
(* posted_at) are copied exactly as author_username is and are stood for   *)
(* by it; the auto-managed created_at / updated_at are not modelled.       *)
(***************************************************************************)
TikTokComment(video, data, reply_count, parent) ==
    [video |-> video,
     author_username |-> data.username,
     like_count |-> data.like_count,
     reply_count |-> reply_count,
     parent_comment |-> parent]

\* TikTokComment.objects.create in place of update_or_create: a stored key
\* violates the unique constraint.
integrity_error_create(objects, comment_id, row) ==
    row.author_username = None \/ comment_id \in DOMAIN objects

\* Whether update_or_create(comment_id, row) raises IntegrityError:
\* author_username is a CharField without null=True, and None violates it.
integrity_error(objects, comment_id, row) == row.author_username = None

\* QuerySet.get_or_create(key, defaults): a stored row is left as it is.
get_or_create(objects, key, defaults) ==
    [k \in DOMAIN objects \cup {key} |-> IF k \in DOMAIN objects THEN objects[k]
                                         ELSE defaults]

\* The table emptied before the row is created.
delete_and_create(objects, key, defaults) == [k \in {key} |-> defaults]

\* QuerySet.update_or_create(key, defaults): the row under the key is created,
\* or its columns are overwritten by the defaults.
update_or_create(objects, key, defaults) ==
    [k \in DOMAIN objects \cup {key} |-> IF k = key THEN defaults ELSE objects[k]]

\* The inner loop run before the comment's own update_or_create.
replies_first_writes(video, comment_data) ==
    [i \in 1..Len(comment_data.replies) |->
        [comment_id |-> comment_data.replies[i].comment_id,
         defaults |-> TikTokComment(video, comment_data.replies[i], 0,
                                    comment_data.comment_id)]]
    \o <<[comment_id |-> comment_data.comment_id,
          defaults |-> TikTokComment(video, comment_data, comment_data.total_reply, None)]>>

(***************************************************************************)
(* The rows behind the tables.  get_or_create and update_or_create look a  *)
(* row up by its natural key and INSERT one only when none is found; the   *)
(* lookup sees the rows the same transaction has inserted.                 *)
(***************************************************************************)
HasRow(table_rows, key) == \E i \in 1..Len(table_rows) : table_rows[i] = key

\* Every lookup of the batch answered from the rows as they were before it.
upsert_rows_stale(table_rows, keys) ==
    table_rows \o SelectSeq(keys, LAMBDA key : ~HasRow(table_rows, key))

RECURSIVE upsert_rows(_, _)
upsert_rows(table_rows, keys) ==
    IF keys = <<>> THEN table_rows
    ELSE upsert_rows(IF HasRow(table_rows, Head(keys)) THEN table_rows
                     ELSE Append(table_rows, Head(keys)),
                     Tail(keys))

(***************************************************************************)
(* Command.save_comments (scrape_comments.py).  The rows are written in    *)
(* the order of the two nested loops: a comment, then its replies.         *)
(***************************************************************************)
comment_writes(video, comment_data) ==
    <<[comment_id |-> comment_data.comment_id,
       defaults |-> TikTokComment(video, comment_data, comment_data.total_reply, None)]>>
    \o [i \in 1..Len(comment_data.replies) |->
          [comment_id |-> comment_data.replies[i].comment_id,
           defaults |-> TikTokComment(video, comment_data.replies[i], 0,
                                      comment_data.comment_id)]]

save_comments_writes(video, fetched) ==
    Flatten([i \in 1..Len(fetched) |-> comment_writes(video, fetched[i])])

\* The loop body, write by write, until a write raises.
RECURSIVE apply_comment_writes(_, _, _)
apply_comment_writes(objects, writes, saved_count) ==
    IF writes = <<>>
    THEN [objects |-> objects, raised |-> FALSE, saved_count |-> saved_count]
    ELSE IF integrity_error(objects, Head(writes).comment_id, Head(writes).defaults)
    THEN [objects |-> objects, raised |-> TRUE, saved_count |-> saved_count]
    ELSE apply_comment_writes(
             update_or_create(objects, Head(writes).comment_id, Head(writes).defaults),
             Tail(writes), saved_count + 1)

\* Without @transaction.atomic the writes made before the exception stay.
no_transaction(before, result) == result.objects

\* @transaction.atomic: an exception leaving the block rolls every write back.
transaction_atomic(before, result) ==
    IF result.raised THEN before ELSE result.objects

save_comments(objects, video, fetched) ==
    LET result == apply_comment_writes(objects, save_comments_writes(video, fetched), 0)
    IN  [raised |-> result.raised,
         objects |-> transaction_atomic(objects, result),
         saved_count |-> result.saved_count]

(***************************************************************************)
(* Command.save_to_database (scrape_tiktok.py).  db is [groups, profiles,  *)
(* videos].  fault is the environment's part: the number of the video      *)
(* whose update_or_create raises a database error, 0 when none does.       *)
(***************************************************************************)
TikTokVideo(username, video_data) ==
    [profile |-> username,
     description |-> video_data.description,
     video_url |-> video_data.video_url,
     play_count |-> video_data.play_count,
     like_count |-> video_data.like_count,
     comment_count |-> video_data.comment_count,
     share_count |-> video_data.share_count,
     posted_at |-> video_data.post_date]

\* Group.objects.get_or_create(name=profile_group)
get_or_create_group(db, profile_group) ==
    [db EXCEPT !.groups = @ \cup {profile_group}]

\* The profile's groups set to the one group: groups.set([group])
upsert_profile_one_group(db, username, profile_name, profile_url, profile_group) ==
    [db EXCEPT !.profiles =
        update_or_create(@, username,
            [name |-> profile_name,
             profile_url |-> profile_url,
             groups |-> {profile_group}])]

\* TikTokProfile.objects.get_or_create, the two assignments, save() and
\* groups.add(group)
upsert_profile(db, username, profile_name, profile_url, profile_group) ==
    LET member_of == IF username \in DOMAIN db.profiles
                     THEN db.profiles[username].groups ELSE {}
    IN  [db EXCEPT !.profiles =
            update_or_create(@, username,
                [name |-> profile_name,
                 profile_url |-> profile_url,
                 groups |-> member_of \cup {profile_group}])]

\* The loop over the videos, until an update_or_create raises.
RECURSIVE apply_video_writes(_, _, _, _, _, _, _)
apply_video_writes(db, username, video_list, position, fault, new_count, updated_count) ==
    IF video_list = <<>>
    THEN [db |-> db, raised |-> FALSE,
          new_count |-> new_count, updated_count |-> updated_count]
    ELSE IF position = fault
    THEN [db |-> db, raised |-> TRUE,
          new_count |-> new_count, updated_count |-> updated_count]
    ELSE LET video_data == Head(video_list)
             created == video_data.id \notin DOMAIN db.videos
         IN  apply_video_writes(
                 [db EXCEPT !.videos =
                     update_or_create(@, video_data.id, TikTokVideo(username, video_data))],
                 username, Tail(video_list), position + 1, fault,
                 IF created THEN new_count + 1 ELSE new_count,
                 IF created THEN updated_count ELSE updated_count + 1)

\* @transaction.atomic of save_to_database.
transaction_atomic_db(before, result) ==
    IF result.raised THEN before ELSE result.db

\* The save left out when the fetch brought no video (if not videos: continue).
save_unless_empty(db, username, profile_name, profile_group, profile_url, video_list, fault) ==
    LET with_group == get_or_create_group(db, profile_group)
        with_profile == upsert_profile(with_group, username, profile_name,
                                       profile_url, profile_group)
        result == apply_video_writes(with_profile, username, video_list, 1, fault, 0, 0)
    IN  IF video_list = <<>>
        THEN [raised |-> FALSE, db |-> db, new_count |-> 0, updated_count |-> 0]
        ELSE [raised |-> result.raised,
              db |-> transaction_atomic_db(db, result),
              new_count |-> result.new_count,
              updated_count |-> result.updated_count]

save_to_database(db, username, profile_name, profile_group, profile_url, video_list, fault) ==
    LET with_group == get_or_create_group(db, profile_group)
        with_profile == upsert_profile(with_group, username, profile_name,
                                       profile_url, profile_group)
        result == apply_video_writes(with_profile, username, video_list, 1, fault, 0, 0)
    IN  [raised |-> result.raised,
         db |-> transaction_atomic_db(db, result),
         new_count |-> result.new_count,
         updated_count |-> result.updated_count]

\* What save_comments hands to its caller, by name: return saved_count.
save_comments_return(result) == [saved_count |-> result.saved_count]

\* What save_to_database hands to its caller: it has no return statement
\* (None); new_count and updated_count go into the line it writes to stdout.
save_to_database_return(result) == <<>>

\* The rows after a save_comments that commits.
save_comments_rows(table, video, fetched) ==
    LET writes == save_comments_writes(video, fetched)
    IN  [table EXCEPT !.comments =
            upsert_rows(@, [i \in 1..Len(writes) |-> writes[i].comment_id])]

\* The rows after a save_to_database that commits.
save_to_database_rows(table, username, profile_group, video_list) ==
    [table EXCEPT !.groups = upsert_rows(@, <<profile_group>>),
                  !.profiles = upsert_rows(@, <<username>>),
                  !.videos = upsert_rows(@, [i \in 1..Len(video_list) |->
                                                video_list[i].id])]

(***************************************************************************)
(* Command.extract_username.  A URL is a sequence of pieces: "@", "?" and  *)
(* "/" are pieces of their own, the text between them is one piece.        *)
(***************************************************************************)
RECURSIVE Join(_)
Join(pieces) == IF pieces = <<>> THEN "" ELSE Head(pieces) \o Join(Tail(pieces))

RECURSIVE Strip(_, _)
Strip(pieces, ch) ==
    IF pieces # <<>> /\ Head(pieces) = ch THEN Strip(Tail(pieces), ch)
    ELSE IF pieces # <<>> /\ pieces[Len(pieces)] = ch
    THEN Strip(SubSeq(pieces, 1, Len(pieces) - 1), ch)
    ELSE pieces

extract_username(profile_url) ==
    IF \E i \in 1..Len(profile_url) : profile_url[i] = "@"
    THEN LET after_at == Split(profile_url, "@")[Len(Split(profile_url, "@"))]
             before_query == Split(after_at, "?")[1]
         IN  Join(Strip(before_query, "/"))
    ELSE None

(***************************************************************************)
(* What get_all_comments can hand to handle(): a list of parsed comments,  *)
(* each with the replies fetched for it, of at most MaxBatch records.      *)
(***************************************************************************)
ParsedReplies ==
    [comment_id : ReplyIds, username : {"u", None}, like_count : {4}, total_reply : {0}]

ParsedComments(n) ==
    {c \in [comment_id : TopIds, username : {"u", None}, like_count : {4},
            total_reply : {0, 2}, replies : SeqsUpTo(ParsedReplies, n - 1)] :
        c.total_reply = 0 => c.replies = <<>>}

RECURSIVE RecordCount(_)
RecordCount(fetched) ==
    IF fetched = <<>> THEN 0
    ELSE 1 + Len(Head(fetched).replies) + RecordCount(Tail(fetched))

RECURSIVE ResultsUpTo(_)
ResultsUpTo(n) ==
    IF n = 0 THEN {<<>>}
    ELSE LET smaller == ResultsUpTo(n - 1)
         IN  smaller \cup
             {r \in {<<c>> \o rest : c \in ParsedComments(n), rest \in smaller} :
                 RecordCount(r) <= n}

FetchResults == ResultsUpTo(MaxBatch)

(***************************************************************************)
(* What yt-dlp can give the profile pass: at most MaxVideos lines.         *)
(***************************************************************************)
PassLines ==
    {<<id, "t1", date, <<"5">>, views, NA, NA>> :
        id \in VideoIds,
        date \in {<<"2", "0", "2", "4", "0", "1", "0", "9">>,
                  <<"2", "0", "2", "4", "0", "1", "1", "0">>},
        views \in {<<"7">>, <<"9">>}}

PassRuns ==
    {[exc |-> "none", returncode |-> 0, stderr |-> {}, stdout |-> out] :
        out \in SeqsUpTo(PassLines, MaxVideos)}
    \cup {[exc |-> "none", returncode |-> 1, stderr |-> {"error:"}, stdout |-> <<>>]}
    \cup {[exc |-> e, returncode |-> 0, stderr |-> {}, stdout |-> <<>>] :
            e \in {"TimeoutExpired", "FileNotFoundError"}}

(***************************************************************************)
(* The loops of the two handle() methods.  In the first run the fetched    *)
(* data is the environment's choice and is logged; when the command is run *)
(* again the upstream is unchanged, and the logged data is fetched again;  *)
(* an item the first run did not reach is fetched and logged then.         *)
(***************************************************************************)
total == Len(items)

after_item(i) == IF i > total THEN "done" ELSE "item"

\* The delay made after every item, the last one too.
delay_always(i) == TRUE

\* if idx < total (scrape_comments), if idx < len(profiles) (scrape_tiktok)
delay_due(i) == i < total

\* What the profile pass can fetch for a profile: what scrape_profile_ytdlp
\* makes of a run of yt-dlp, and the video (if any) whose write will fail.
ScrapeChoices(username) ==
    LET results == {scrape_profile_ytdlp(username, cutoff_date, run) : run \in PassRuns}
    IN  {got \in [videos : {r.videos : r \in results}, raised : BOOLEAN,
                  fault : 0..MaxVideos] :
            /\ [raised |-> got.raised, videos |-> got.videos] \in results
            /\ got.fault <= Len(got.videos)
            /\ got.raised => got.fault = 0}

Logged(entry) ==
    IF idx > Len(fetchLog) THEN Append(fetchLog, entry) ELSE fetchLog

Batch(item, fetched, outcome) ==
    [item |-> item, fetched |-> fetched, outcome |-> outcome, before |-> store]

\* Command.handle of scrape_comments, one iteration up to the delay: fetch,
\* then skip or save.
scrape_comments_item ==
    /\ cmd = "scrape_comments"
    /\ pc = "item"
    /\ \E result \in (IF idx <= Len(fetchLog) THEN {fetchLog[idx]} ELSE FetchResults) :
        LET video == items[idx]
            saved == save_comments(comments, video, result)
        IN  /\ sinceFetch' = "fetched"
            /\ fetchLog' = Logged(result)
            /\ rows' = IF result = <<>> \/ saved.raised THEN rows
                       ELSE save_comments_rows(rows, video, result)
            /\ IF result = <<>>
               THEN \* "No comments found": continue
                    /\ comments' = comments
                    /\ idx' = idx + 1
                    /\ pc' = after_item(idx + 1)
                    /\ last' = Batch(video, result, "empty")
               ELSE IF saved.raised
               THEN \* the exception leaves handle()
                    /\ comments' = saved.objects
                    /\ idx' = idx
                    /\ pc' = "aborted"
                    /\ last' = Batch(video, result, "raised")
               ELSE /\ comments' = saved.objects
                    /\ IF delay_due(idx)
                       THEN idx' = idx /\ pc' = "delay"
                       ELSE idx' = idx + 1 /\ pc' = after_item(idx + 1)
                    /\ last' = Batch(video, result, "saved")
    /\ UNCHANGED <<cmd, groups, profiles, videos, items, runNo, firstRun>>
    /\ UNCHANGED passVars
    /\ UNCHANGED fetchVars

\* time.sleep(delay) between two videos.
scrape_comments_delay ==
    /\ cmd = "scrape_comments"
    /\ pc = "delay"
    /\ sinceFetch' = "slept"
    /\ idx' = idx + 1
    /\ pc' = after_item(idx + 1)
    /\ UNCHANGED <<cmd, groups, profiles, videos, comments, items, last,
                   fetchLog, runNo, firstRun>>
    /\ UNCHANGED passVars
    /\ UNCHANGED fetchVars
    /\ UNCHANGED rows

\* Command.handle of scrape_tiktok, one iteration up to the delay.
scrape_tiktok_item ==
    /\ cmd = "scrape_tiktok"
    /\ pc = "item"
    /\ LET profile == items[idx]
           username == extract_username(profile.url)
       IN  IF username = None \/ username = ""
           THEN \* "Could not extract username": continue
                /\ idx' = idx + 1
                /\ pc' = after_item(idx + 1)
                /\ last' = Batch(profile, <<>>, "skipped")
                /\ fetchLog' = Logged([videos |-> <<>>, raised |-> FALSE, fault |-> 0])
                /\ UNCHANGED <<groups, profiles, videos, rows, sinceFetch>>
           ELSE \E got \in (IF idx <= Len(fetchLog) THEN {fetchLog[idx]}
                              ELSE ScrapeChoices(username)) :
                LET saved == save_to_database(
                                 [groups |-> groups, profiles |-> profiles,
                                  videos |-> videos],
                                 username, profile.name, profile.group, profile.url,
                                 got.videos, got.fault)
                IN  /\ sinceFetch' = "fetched"
                    /\ fetchLog' = Logged(got)
                    /\ rows' = IF got.raised \/ saved.raised THEN rows
                               ELSE save_to_database_rows(rows, username, profile.group,
                                                          got.videos)
                    /\ IF got.raised
                       THEN \* CommandError("yt-dlp not found!") leaves handle()
                            /\ UNCHANGED <<groups, profiles, videos, idx>>
                            /\ pc' = "aborted"
                            /\ last' = Batch(profile, got.videos, "fetch_raised")
                       ELSE IF saved.raised
                       THEN \* the database error leaves handle()
                            /\ groups' = saved.db.groups
                            /\ profiles' = saved.db.profiles
                            /\ videos' = saved.db.videos
                            /\ idx' = idx
                            /\ pc' = "aborted"
                            /\ last' = Batch(profile, got.videos, "raised")
                       ELSE /\ groups' = saved.db.groups
                            /\ profiles' = saved.db.profiles
                            /\ videos' = saved.db.videos
                            /\ IF delay_due(idx)
                               THEN idx' = idx /\ pc' = "delay"
                               ELSE idx' = idx + 1 /\ pc' = after_item(idx + 1)
                            /\ last' = Batch(profile, got.videos, "saved")
    /\ UNCHANGED <<cmd, comments, items, runNo, firstRun>>
    /\ UNCHANGED passVars
    /\ UNCHANGED fetchVars

\* time.sleep(delay) between two profiles.
scrape_tiktok_delay ==
    /\ cmd = "scrape_tiktok"
    /\ pc = "delay"
    /\ sinceFetch' = "slept"
    /\ idx' = idx + 1
    /\ pc' = after_item(idx + 1)
    /\ UNCHANGED <<cmd, groups, profiles, videos, comments, items, last,
                   fetchLog, runNo, firstRun>>
    /\ UNCHANGED passVars
    /\ UNCHANGED fetchVars
    /\ UNCHANGED rows

\* save_comments left by KeyboardInterrupt after n of its writes: the
\* exception passes through @transaction.atomic.
interrupted_save_comments(objects, video, fetched, n) ==
    LET result == apply_comment_writes(
                      objects, SubSeq(save_comments_writes(video, fetched), 1, n), 0)
    IN  transaction_atomic(objects, [result EXCEPT !.raised = TRUE])

\* save_to_database left by KeyboardInterrupt after the group, the profile
\* and n of the videos were written.
interrupted_save_to_database(db, username, profile_name, profile_group, profile_url, video_list, n) ==
    LET with_group == get_or_create_group(db, profile_group)
        with_profile == upsert_profile(with_group, username, profile_name,
                                       profile_url, profile_group)
        result == apply_video_writes(with_profile, username, SubSeq(video_list, 1, n),
                                     1, 0, 0, 0)
    IN  transaction_atomic_db(db, [result EXCEPT !.raised = TRUE])

\* The process is terminated (Ctrl-C) in the first run: in the delay, or in
\* an iteration, where a save may be under way.
terminate ==
    /\ cmd \in {"scrape_tiktok", "scrape_comments"}
    /\ runNo = 1
    /\ pc \in {"item", "delay"}
    /\ pc' = "terminated"
    /\ IF pc = "delay"
       THEN UNCHANGED <<groups, profiles, videos, comments>>
       ELSE IF cmd = "scrape_comments"
       THEN /\ \E result \in FetchResults, n \in 0..MaxBatch :
                  /\ n <= RecordCount(result)
                  /\ comments' = interrupted_save_comments(comments, items[idx],
                                                           result, n)
            /\ UNCHANGED <<groups, profiles, videos>>
       ELSE LET profile == items[idx]
                username == extract_username(profile.url)
            IN  /\ IF username = None \/ username = ""
                   THEN UNCHANGED <<groups, profiles, videos>>
                   ELSE \E got \in ScrapeChoices(username), n \in 0..MaxVideos :
                          LET db == interrupted_save_to_database(
                                        [groups |-> groups, profiles |-> profiles,
                                         videos |-> videos],
                                        username, profile.name, profile.group,
                                        profile.url, got.videos, n)
                          IN  /\ n <= Len(got.videos)
                              /\ groups' = db.groups
                              /\ profiles' = db.profiles
                              /\ videos' = db.videos
                /\ UNCHANGED comments
    /\ UNCHANGED <<cmd, items, idx, sinceFetch, last, fetchLog, runNo, firstRun>>
    /\ UNCHANGED passVars
    /\ UNCHANGED fetchVars
    /\ UNCHANGED rows

\* The same command is run a second time against unchanged upstream data.
run_again ==
    /\ cmd \in {"scrape_tiktok", "scrape_comments"}
    /\ pc \in {"done", "aborted", "terminated"}
    /\ runNo = 1
    /\ runNo' = 2
    /\ firstRun' = [store |-> store, pc |-> pc]
    /\ idx' = 1
    /\ pc' = after_item(1)
    /\ sinceFetch' = "start"
    /\ UNCHANGED <<cmd, groups, profiles, videos, comments, items, last, fetchLog>>
    /\ UNCHANGED passVars
    /\ UNCHANGED fetchVars
    /\ UNCHANGED rows

\* TikTokCommentScraper.__init__: no video yet, no call in progress.
NoScraper ==
    [aweme_id |-> None, at |-> "idle", page |-> 1, raw |-> <<>>, has_more |-> 0,
     parsed_comments |-> <<>>, result |-> [comments |-> <<>>, has_more |-> 0],
     data |-> [has_more |-> 0], all_comments |-> <<>>,
     reply |-> [parsed |-> None, page |-> 1, all_replies |-> <<>>]]

NoBatch == [item |-> None, fetched |-> <<>>, outcome |-> "none", before |-> None]

NoRun == [exc |-> "none", returncode |-> 0, stderr |-> {}, stdout |-> <<>>]

Day(year, month, day) == datetime(year, month, day).ticks

InitRun ==
    /\ idx = 1
    /\ pc = after_item(1)
    /\ sinceFetch = "start"
    /\ last = NoBatch
    /\ ytdlp = NoRun
    /\ scraped = [raised |-> FALSE, videos |-> <<>>]
    /\ fetchLog = <<>>
    /\ runNo = 1
    /\ firstRun = None
    /\ scraper = NoScraper
    /\ wire = <<>>

\* No table holds a row.
NoRows == [groups |-> <<>>, profiles |-> <<>>, videos |-> <<>>, comments |-> <<>>]

\* The rows of SeededStore.
SeededRows ==
    [groups |-> <<"g1">>, profiles |-> <<"p1">>, videos |-> <<"v1", "v2">>,
     comments |-> <<>>]

\* The store a profile pass has filled: one profile and its two videos.
SeededStore ==
    [groups |-> {"g1"},
     profiles |-> [u \in {"p1"} |->
                     [name |-> "n1",
                      profile_url |-> <<"https://www.tiktok.com/", "@", "p1">>,
                      groups |-> {"g1"}]],
     videos |-> [v \in VideoIds |->
                    TikTokVideo("p1",
                        [id |-> v, description |-> "t1", video_url |-> <<"p1", v>>,
                         play_count |-> 7, like_count |-> 5, comment_count |-> 0,
                         share_count |-> 0,
                         post_date |-> IF v = "v1" THEN Day(2024, 1, 11)
                                       ELSE Day(2024, 1, 10)])],
     comments |-> <<>>]

StoredVideos ==
    /\ groups = SeededStore.groups
    /\ profiles = SeededStore.profiles
    /\ videos = SeededStore.videos
    /\ rows = SeededRows

\* The comment pass starts on a store a profile pass has filled.
InitComments ==
    /\ cmd = "scrape_comments"
    /\ StoredVideos
    /\ comments = <<>>
    /\ items \in {<<"v1">>, <<"v1", "v2">>}
    /\ options = [from_date |-> <<>>, days |-> 30]
    /\ now = Day(2024, 1, 12)
    /\ cutoff_date = 0
    /\ InitRun

ProfileEntries ==
    {[url |-> <<"https://www.tiktok.com/", "@", "p1">>, name |-> "n1", group |-> "g1"],
     [url |-> <<"https://www.tiktok.com/", "@", "p1", "/">>, name |-> "n2", group |-> "g2"],
     [url |-> <<"https://www.tiktok.com/", "@", "p2", "?", "lang=en">>,
      name |-> "n1", group |-> "g1"],
     [url |-> <<"https://www.tiktok.com/", "p1">>, name |-> "n1", group |-> "g1"]}

\* The profile pass starts on an empty store.
InitProfiles ==
    /\ cmd = "scrape_tiktok"
    /\ groups = {}
    /\ profiles = <<>>
    /\ videos = <<>>
    /\ comments = <<>>
    /\ rows = NoRows
    /\ items \in {<<a>> : a \in ProfileEntries}
                 \cup {<<a, b>> : a \in ProfileEntries, b \in ProfileEntries}
    /\ options = [from_date |-> <<"2", "0", "2", "4", "-", "0", "1", "-", "1", "0">>,
                  days |-> 30]
    /\ now = Day(2024, 1, 12)
    /\ cutoff_date = cutoff_date_of(options, now).cutoff
    /\ InitRun

Init == InitComments \/ InitProfiles

Next ==
    \/ scrape_comments_item
    \/ scrape_comments_delay
    \/ scrape_tiktok_item
    \/ scrape_tiktok_delay
    \/ terminate
    \/ run_again

Spec == Init /\ [][Next]_vars

(***************************************************************************)
(* scrape_profile_ytdlp on its own: handle() computes the cutoff from the  *)
(* command line and calls it once on what yt-dlp printed.                  *)
(***************************************************************************)
MaxLines == 2

Text(string) ==
    CASE string = "20240109" -> <<"2", "0", "2", "4", "0", "1", "0", "9">>
      [] string = "20240110" -> <<"2", "0", "2", "4", "0", "1", "1", "0">>
      [] string = "20240111" -> <<"2", "0", "2", "4", "0", "1", "1", "1">>
      [] string = "2024011" -> <<"2", "0", "2", "4", "0", "1", "1">>
      [] string = "20241310" -> <<"2", "0", "2", "4", "1", "3", "1", "0">>
      [] string = "2024ab10" -> <<"2", "0", "2", "4", "a", "b", "1", "0">>
      [] string = "2024-01-10" -> <<"2", "0", "2", "4", "-", "0", "1", "-", "1", "0">>
      [] string = "10/01/2024" -> <<"1", "0", "/", "0", "1", "/", "2", "0", "2", "4">>
      [] string = "2024-02-30" -> <<"2", "0", "2", "4", "-", "0", "2", "-", "3", "0">>
      [] string = "NA" -> NA
      [] string = "" -> <<>>
      [] string = "7" -> <<"7">>
      [] string = "x" -> <<"x">>
      [] string = "-3" -> <<"-", "3">>

DateTexts ==
    {Text(d) : d \in {"20240109", "20240110", "20240111", "NA", "",
                      "2024011", "20241310", "2024ab10"}}

CountTexts == {Text(c) : c \in {"7", "NA", "", "x", "-3"}}

\* The lines yt-dlp may print: every date with plain counters, every counter
\* text in each counter field, a line without the seventh field, a line of
\* five fields and an empty line.
ScrapeLines ==
    {<<id, "t1", date, Text("7"), Text("7"), Text("7"), Text("7")>> :
        id \in VideoIds, date \in DateTexts}
    \cup {[k \in 1..7 |-> IF k = 1 THEN id
                          ELSE IF k = 2 THEN "t1"
                          ELSE IF k = 3 THEN Text("20240110")
                          ELSE IF k = field THEN count ELSE Text("7")] :
            id \in VideoIds, field \in 4..7, count \in CountTexts}
    \cup {<<id, "t1", Text("20240110"), Text("7"), Text("7"), Text("7")>> :
            id \in VideoIds}
    \cup {<<id, "t1", NA, NA, NA>> : id \in VideoIds}
    \cup {<<>>}

ScrapeRuns ==
    {[exc |-> "none", returncode |-> 0, stderr |-> {}, stdout |-> out] :
        out \in SeqsUpTo(ScrapeLines, MaxLines)}
    \cup {[exc |-> "none", returncode |-> 1, stderr |-> err, stdout |-> out] :
            err \in SUBSET {"error:", "warning:"},
            out \in SeqsUpTo({<<"v1", "t1", Text("20240111"), NA, NA, NA, NA>>}, 1)}
    \cup {[exc |-> e, returncode |-> 0, stderr |-> {}, stdout |-> <<>>] :
            e \in {"TimeoutExpired", "FileNotFoundError", "Exception"}}

ScrapeOptions ==
    {[from_date |-> Text(d), days |-> 30] :
        d \in {"2024-01-10", "10/01/2024", "2024-02-30"}}
    \cup {[from_date |-> <<>>, days |-> n] : n \in {1, 30}}

\* timezone.now(): any time of the day, on 2024-01-11 or 2024-02-09.
Nows ==
    {Day(2024, 1, 11) + t : t \in 0..(TicksPerDay - 1)}
    \cup {Day(2024, 2, 9) + t : t \in 0..(TicksPerDay - 1)}

InitScrape ==
    /\ cmd = "scrape_profile_ytdlp"
    /\ groups = {}
    /\ profiles = <<>>
    /\ videos = <<>>
    /\ comments = <<>>
    /\ rows = NoRows
    /\ items = <<>>
    /\ options \in ScrapeOptions
    /\ now \in Nows
    /\ cutoff_date = cutoff_date_of(options, now).cutoff
    /\ idx = 1
    /\ pc = IF cutoff_date_of(options, now).error THEN "command_error" ELSE "scrape"
    /\ sinceFetch = "start"
    /\ last = NoBatch
    /\ ytdlp = NoRun
    /\ scraped = [raised |-> FALSE, videos |-> <<>>]
    /\ fetchLog = <<>>
    /\ runNo = 1
    /\ firstRun = None
    /\ scraper = NoScraper
    /\ wire = <<>>

\* videos = self.scrape_profile_ytdlp(username, profile_url, cutoff_date, ...)
scrape_call ==
    /\ cmd = "scrape_profile_ytdlp"
    /\ pc = "scrape"
    /\ \E run \in ScrapeRuns :
        /\ ytdlp' = run
        /\ scraped' = scrape_profile_ytdlp("p1", cutoff_date, run)
    /\ pc' = "returned"
    /\ UNCHANGED <<cmd, groups, profiles, videos, comments, items, idx, sinceFetch,
                   last, options, now, cutoff_date, fetchLog, runNo, firstRun>>
    /\ UNCHANGED fetchVars
    /\ UNCHANGED rows

\* self.save_to_database(username, ...) on what the call returned, unless
\* the call raised; then handle() goes on to the next profile.
scrape_save ==
    /\ cmd = "scrape_profile_ytdlp"
    /\ pc = "returned"
    /\ \E fault \in 0..Len(scraped.videos) :
        LET saved == save_to_database(
                         [groups |-> groups, profiles |-> profiles, videos |-> videos],
                         "p1", "n1", "g1", <<"https://www.tiktok.com/", "@", "p1">>,
                         scraped.videos, fault)
        IN  IF scraped.raised
            THEN /\ pc' = "aborted"
                 /\ UNCHANGED <<groups, profiles, videos, rows>>
            ELSE /\ groups' = saved.db.groups
                 /\ rows' = IF saved.raised THEN rows
                            ELSE save_to_database_rows(rows, "p1", "g1", scraped.videos)
                 /\ profiles' = saved.db.profiles
                 /\ videos' = saved.db.videos
                 /\ pc' = IF saved.raised THEN "aborted" ELSE "next"
    /\ UNCHANGED <<cmd, comments, items, idx, sinceFetch, last, fetchLog, runNo,
                   firstRun>>
    /\ UNCHANGED passVars
    /\ UNCHANGED fetchVars

NextScrape ==
    \/ scrape_call
    \/ scrape_save

SpecScrape == InitScrape /\ [][NextScrape]_vars

(***************************************************************************)
(* TikTokCommentScraper, request by request, under Command.handle of       *)
(* scrape_comments.  The upstream answers each request as it likes: it     *)
(* fails, or sends a page of comments, each with a comment id it has not   *)
(* sent before.  It sends MaxItems comments in all.                        *)
(***************************************************************************)
MaxItems == 3
MaxPageItems == 2

\* size: int = 50
size == 50

\* time.sleep(1), time.sleep(0.5), in tenths of a second
PageSleep == 10
ReplySleep == 5

\* --delay, default=2, in tenths of a second
delay == 20

UpstreamIds == <<"c1", "c2", "c3", "c4", "c5", "c6">>

RECURSIVE ItemCount(_)
ItemCount(events) ==
    IF events = <<>> THEN 0
    ELSE Len(Head(events).response.comments) + ItemCount(Tail(events))

Issued == ItemCount(wire)

\* The comments the upstream may put in a page: with or without an author,
\* with a reply count <<n>> or without one, <<>>.
UpstreamItems(totals) ==
    LET Shapes == [unique_id : {"u", None}, reply_comment_total : totals]
        room == IF MaxItems - Issued < MaxPageItems THEN MaxItems - Issued
                ELSE MaxPageItems
    IN  UNION {{[i \in 1..n |->
                    [cid |-> UpstreamIds[Issued + i],
                     unique_id |-> shape[i].unique_id,
                     digg_count |-> 4,
                     reply_comment_total |-> shape[i].reply_comment_total]] :
                  shape \in [1..n -> Shapes]} : n \in 0..room}

Failure == [ok |-> FALSE, comments |-> <<>>, has_more |-> 0]

CommentPages ==
    {Failure} \cup
    [ok : {TRUE}, comments : UpstreamItems({<<>>, <<0>>, <<2>>}), has_more : {0, 1}]

ReplyPages ==
    {Failure} \cup [ok : {TRUE}, comments : UpstreamItems({<<0>>, <<2>>}), has_more : {0}]

Exchange(op, aweme_id, comment_id, item_id, cursor, response) ==
    [op |-> op, aweme_id |-> aweme_id, comment_id |-> comment_id, item_id |-> item_id,
     cursor |-> cursor, seconds |-> 0, response |-> response]

\* time.sleep left out: no time passes.
sleep_skipped(seconds) ==
    [op |-> "sleep", aweme_id |-> None, comment_id |-> None, item_id |-> None,
     cursor |-> 0, seconds |-> 0, response |-> Failure]

Sleep(seconds) ==
    [op |-> "sleep", aweme_id |-> None, comment_id |-> None, item_id |-> None,
     cursor |-> 0, seconds |-> seconds, response |-> Failure]

\* The cursor of the first page sent with every request.
cursor_first_page(page) == 0

\* "cursor": (page - 1) * size
cursor_of(page) == (page - 1) * size

_parse_comment(data) ==
    [comment_id |-> data.cid,
     username |-> data.unique_id,
     like_count |-> data.digg_count,
     total_reply |-> data.reply_comment_total]

\* The parsed reply count as a number, where it is one.
counted(parsed) ==
    [comment_id |-> parsed.comment_id, username |-> parsed.username,
     like_count |-> parsed.like_count, total_reply |-> parsed.total_reply[1]]

\* [self._parse_comment(comment) for comment in comments]
parse_replies(raw) == [i \in 1..Len(raw) |-> counted(_parse_comment(raw[i]))]

TypeError == [raised |-> TRUE, comments |-> <<>>, has_more |-> 0]

RequestError == [raised |-> TRUE, comments |-> <<>>]

\* get_comments without its try/except: the exception leaves it.
get_comments_uncaught(page) == page

\* get_replies without its try/except: the exception leaves it.
get_replies_uncaught(page) == page

\* The reply fetch made whatever the reply count is.
has_replies_always(parsed) == TRUE

\* except Exception of get_comments: the page becomes an empty last page.
get_comments_except(page) ==
    IF page.raised THEN [raised |-> FALSE, comments |-> <<>>, has_more |-> 0] ELSE page

\* except Exception of get_replies: the reply page becomes an empty one.
get_replies_except(page) ==
    IF page.raised THEN [raised |-> FALSE, comments |-> <<>>] ELSE page

\* if parsed.get("total_reply", 0) > 0
has_replies(parsed) == parsed.total_reply[1] > 0

with_replies(parsed, replies) ==
    [comment_id |-> parsed.comment_id, username |-> parsed.username,
     like_count |-> parsed.like_count, total_reply |-> parsed.total_reply[1],
     replies |-> replies]

\* get_comments has returned `page` to get_all_comments, or has raised.
get_comments_returns(frame, page) ==
    IF page.raised
    THEN [frame EXCEPT !.at = "raised", !.raw = <<>>, !.parsed_comments = <<>>]
    ELSE [frame EXCEPT !.at = "page_done", !.raw = <<>>, !.parsed_comments = <<>>,
                       !.result = [comments |-> page.comments,
                                   has_more |-> page.has_more]]

\* scraper.get_all_comments(video.video_id) is called: page = 1.
get_all_comments_call(frame) ==
    [frame EXCEPT !.at = "get_comments", !.page = 1, !.all_comments = <<>>,
                  !.data = [has_more |-> 0]]

\* An exception that leaves get_all_comments leaves handle() too.
propagate(frame) == IF frame.at = "raised" THEN "aborted" ELSE pc

\* self.aweme_id assigned once, by the first call of the run.
set_aweme_id_once(frame, aweme_id) ==
    IF frame.aweme_id = None THEN [frame EXCEPT !.aweme_id = aweme_id] ELSE frame

\* self.aweme_id = aweme_id, on every call of get_comments.
set_aweme_id(frame, aweme_id) == [frame EXCEPT !.aweme_id = aweme_id]

\* get_comments from its call to the answer of the upstream.
get_comments ==
    /\ cmd = "get_all_comments"
    /\ pc = "item"
    /\ scraper.at = "get_comments"
    /\ \E response \in CommentPages :
        LET aweme_id == items[idx]
            entered == set_aweme_id(scraper, aweme_id)
            next == IF response.ok
                    THEN [entered EXCEPT !.at = "for_comment",
                                         !.raw = response.comments,
                                         !.has_more = response.has_more,
                                         !.parsed_comments = <<>>]
                    ELSE get_comments_returns(entered, get_comments_except(TypeError))
        IN  /\ wire' = Append(wire, Exchange("comments", aweme_id, None, None,
                                             cursor_of(scraper.page), response))
            /\ scraper' = next
            /\ pc' = propagate(next)
    /\ UNCHANGED <<cmd, groups, profiles, videos, comments, items, idx, sinceFetch,
                   last, fetchLog, runNo, firstRun>>
    /\ UNCHANGED passVars
    /\ UNCHANGED rows

\* for comment in data["comments"]: one iteration up to the reply fetch.
for_comment ==
    /\ cmd = "get_all_comments"
    /\ pc = "item"
    /\ scraper.at = "for_comment"
    /\ scraper.raw # <<>>
    /\ LET parsed == _parse_comment(Head(scraper.raw))
           next == IF parsed.total_reply = <<>>
                   THEN \* None > 0 raises TypeError
                        get_comments_returns(scraper, get_comments_except(TypeError))
                   ELSE IF has_replies(parsed)
                   THEN [scraper EXCEPT !.at = "get_replies",
                                        !.raw = Tail(@),
                                        !.reply = [parsed |-> parsed, page |-> 1,
                                                   all_replies |-> <<>>]]
                   ELSE [scraper EXCEPT !.raw = Tail(@),
                                        !.parsed_comments =
                                            Append(@, with_replies(parsed, <<>>))]
       IN  /\ scraper' = next
           /\ pc' = propagate(next)
    /\ UNCHANGED <<cmd, groups, profiles, videos, comments, items, idx, sinceFetch,
                   last, fetchLog, runNo, firstRun, wire>>
    /\ UNCHANGED passVars
    /\ UNCHANGED rows

\* get_comments returns the page it has parsed.
get_comments_return ==
    /\ cmd = "get_all_comments"
    /\ pc = "item"
    /\ scraper.at = "for_comment"
    /\ scraper.raw = <<>>
    /\ scraper' = get_comments_returns(scraper,
                      [raised |-> FALSE, comments |-> scraper.parsed_comments,
                       has_more |-> scraper.has_more])
    /\ UNCHANGED <<cmd, groups, profiles, videos, comments, items, idx, pc, sinceFetch,
                   last, fetchLog, runNo, firstRun, wire>>
    /\ UNCHANGED passVars
    /\ UNCHANGED rows

\* The replies of a reply that reports some asked for next.
expand_reply(reply, replies) ==
    IF replies[1].total_reply > 0
    THEN [reply EXCEPT !.all_replies = @ \o replies, !.page = 1,
                       !.parsed.comment_id = replies[1].comment_id]
    ELSE [reply EXCEPT !.all_replies = @ \o replies, !.page = @ + 1]

\* all_replies.extend(replies); page += 1: the next page of the same comment.
extend_replies(reply, replies) ==
    [reply EXCEPT !.all_replies = @ \o replies, !.page = @ + 1]

\* get_all_replies: one turn of its loop, get_replies included.
get_all_replies ==
    /\ cmd = "get_all_comments"
    /\ pc = "item"
    /\ scraper.at = "get_replies"
    /\ \E response \in ReplyPages :
        LET reply == scraper.reply
            exchange == Exchange("replies", None, reply.parsed.comment_id,
                                 scraper.aweme_id, cursor_of(reply.page), response)
            replies == get_replies_except(
                           IF response.ok
                           THEN [raised |-> FALSE,
                                 comments |-> parse_replies(response.comments)]
                           ELSE RequestError)
            next == IF replies.raised
                    THEN \* the exception reaches the handler of get_comments
                         get_comments_returns(scraper, get_comments_except(TypeError))
                    ELSE IF replies.comments = <<>>
                    THEN [scraper EXCEPT !.at = "for_comment",
                                         !.parsed_comments =
                                             Append(@, with_replies(reply.parsed,
                                                                    reply.all_replies)),
                                         !.reply = NoScraper.reply]
                    ELSE [scraper EXCEPT !.reply = extend_replies(@, replies.comments)]
        IN  /\ wire' = IF ~replies.raised /\ replies.comments # <<>>
                       THEN wire \o <<exchange, Sleep(ReplySleep)>>
                       ELSE Append(wire, exchange)
            /\ scraper' = next
            /\ pc' = propagate(next)
    /\ UNCHANGED <<cmd, groups, profiles, videos, comments, items, idx, sinceFetch,
                   last, fetchLog, runNo, firstRun>>
    /\ UNCHANGED passVars
    /\ UNCHANGED rows

\* get_all_comments once get_comments has returned: the first page, or one
\* turn of the while loop; then the next turn's page += 1 and sleep.
get_all_comments ==
    /\ cmd = "get_all_comments"
    /\ pc = "item"
    /\ scraper.at = "page_done"
    /\ LET result == scraper.result
           break == scraper.page > 1 /\ result.comments = <<>>
           all_comments == IF scraper.page = 1 THEN result.comments
                           ELSE scraper.all_comments \o result.comments
           has_more == IF break THEN 0 ELSE result.has_more
       IN  IF has_more = 1
           THEN /\ scraper' = [scraper EXCEPT !.all_comments = all_comments,
                                              !.data = [has_more |-> has_more],
                                              !.page = @ + 1,
                                              !.at = "get_comments"]
                /\ wire' = Append(wire, Sleep(PageSleep))
           ELSE /\ scraper' = [scraper EXCEPT !.all_comments = all_comments,
                                              !.data = [has_more |-> has_more],
                                              !.at = "returned"]
                /\ wire' = wire
    /\ UNCHANGED <<cmd, groups, profiles, videos, comments, items, idx, pc, sinceFetch,
                   last, fetchLog, runNo, firstRun>>
    /\ UNCHANGED passVars
    /\ UNCHANGED rows

\* Command.handle of scrape_comments from the return of get_all_comments to
\* the next video's call: skip or save, then the delay.
handle ==
    /\ cmd = "get_all_comments"
    /\ pc = "item"
    /\ scraper.at = "returned"
    /\ LET video == items[idx]
           result == scraper.all_comments
           saved == save_comments(comments, video, result)
           called == IF idx < total THEN get_all_comments_call(scraper)
                     ELSE [scraper EXCEPT !.at = "idle"]
       IN  IF result = <<>>
           THEN /\ comments' = comments
                /\ rows' = rows
                /\ idx' = idx + 1
                /\ pc' = after_item(idx + 1)
                /\ last' = Batch(video, result, "empty")
                /\ wire' = wire
                /\ scraper' = called
           ELSE IF saved.raised
           THEN /\ comments' = saved.objects
                /\ rows' = rows
                /\ idx' = idx
                /\ pc' = "aborted"
                /\ last' = Batch(video, result, "raised")
                /\ wire' = wire
                /\ scraper' = [scraper EXCEPT !.at = "idle"]
           ELSE /\ comments' = saved.objects
                /\ rows' = save_comments_rows(rows, video, result)
                /\ idx' = idx + 1
                /\ pc' = after_item(idx + 1)
                /\ last' = Batch(video, result, "saved")
                /\ wire' = IF idx < total THEN Append(wire, Sleep(delay)) ELSE wire
                /\ scraper' = called
    /\ UNCHANGED <<cmd, groups, profiles, videos, items, sinceFetch, fetchLog, runNo,
                   firstRun>>
    /\ UNCHANGED passVars

\* A comment an earlier comment pass stored for v1; the upstream of this
\* run does not hold it.
EarlierComments ==
    [c \in {"c0"} |-> TikTokComment("v1", [username |-> "u", like_count |-> 4], 0, None)]

InitFetch ==
    /\ cmd = "get_all_comments"
    /\ groups = SeededStore.groups
    /\ profiles = SeededStore.profiles
    /\ videos = SeededStore.videos
    /\ comments = EarlierComments
    /\ rows = [SeededRows EXCEPT !.comments = <<"c0">>]
    /\ items \in {<<"v1">>, <<"v1", "v2">>}
    /\ options = [from_date |-> <<>>, days |-> 30]
    /\ now = Day(2024, 1, 12)
    /\ cutoff_date = 0
    /\ idx = 1
    /\ pc = "item"
    /\ sinceFetch = "start"
    /\ last = NoBatch
    /\ ytdlp = NoRun
    /\ scraped = [raised |-> FALSE, videos |-> <<>>]
    /\ fetchLog = <<>>
    /\ runNo = 1
    /\ firstRun = None
    /\ scraper = get_all_comments_call(NoScraper)
    /\ wire = <<>>

NextFetch ==
    \/ get_comments
    \/ for_comment
    \/ get_comments_return
    \/ get_all_replies
    \/ get_all_comments
    \/ handle

SpecFetch == InitFetch /\ [][NextFetch]_vars

(***************************************************************************)
(* The two handle() methods from the command line on: the configuration is *)
(* read and checked, then the loop runs as above.  The profiles file is    *)
(* [state, data]: state "missing" or "invalid" when open() or json.load()  *)
(* raises, data the groups in file order, each [group, accounts].  A       *)
(* filter that is not given is "", a --limit that is not given is 0.       *)
(***************************************************************************)
RECURSIVE load_accounts(_, _)
load_accounts(data, debug) ==
    IF data = <<>> THEN <<>>
    ELSE LET accounts == IF debug THEN SubSeq(Head(data).accounts, 1,
                                              IF Len(Head(data).accounts) < 1
                                              THEN Len(Head(data).accounts) ELSE 1)
                         ELSE Head(data).accounts
         IN  [i \in 1..Len(accounts) |->
                [url |-> accounts[i].url, name |-> accounts[i].name,
                 group |-> Head(data).group]]
             \o load_accounts(Tail(data), debug)

\* Command.load_profiles: [error, profiles]
load_profiles(profiles_file, debug) ==
    IF profiles_file.state \in {"missing", "invalid"}
    THEN [error |-> TRUE, profiles |-> <<>>]
    ELSE [error |-> FALSE, profiles |-> load_accounts(profiles_file.data, debug)]

\* Command.handle of scrape_tiktok up to its loop: [error, cutoff, profiles]
select_profiles(opts, at) ==
    LET cutoff == cutoff_date_of(opts, at)
        loaded == load_profiles(opts.profiles, opts.debug)
        Wanted(p) == extract_username(p.url) = opts.username
        filtered == IF opts.username # "" THEN SelectSeq(loaded.profiles, Wanted)
                    ELSE loaded.profiles
    IN  [error |-> cutoff.error \/ loaded.error \/ filtered = <<>>,
         cutoff |-> cutoff.cutoff,
         profiles |-> filtered]

\* order_by("-posted_at") over a set of video ids
RECURSIVE order_by_posted_at(_, _)
order_by_posted_at(table, ids) ==
    IF ids = {} THEN <<>>
    ELSE LET first == CHOOSE v \in ids :
                          \A w \in ids : table[w].posted_at <= table[v].posted_at
         IN  <<first>> \o order_by_posted_at(table, ids \ {first})

\* Command.handle of scrape_comments up to its loop: [error, videos]
select_videos(opts, table) ==
    LET by_id == IF opts.video_id # ""
                 THEN {v \in DOMAIN table : v = opts.video_id} ELSE DOMAIN table
        by_profile == IF opts.profile # ""
                      THEN {v \in by_id : table[v].profile = opts.profile} ELSE by_id
        ordered == order_by_posted_at(table, by_profile)
        limited == IF opts.limit # 0 /\ opts.limit < Len(ordered)
                   THEN SubSeq(ordered, 1, opts.limit) ELSE ordered
    IN  [error |-> (opts.video_id # "" /\ by_id = {})
                   \/ (opts.profile # "" /\ by_profile = {}),
         videos |-> limited]

scrape_tiktok_handle ==
    /\ cmd = "scrape_tiktok"
    /\ pc = "handle"
    /\ LET selected == select_profiles(options, now)
       IN  /\ cutoff_date' = selected.cutoff
           /\ items' = IF selected.error THEN <<>> ELSE selected.profiles
           /\ pc' = IF selected.error THEN "command_error" ELSE "item"
    /\ UNCHANGED <<cmd, groups, profiles, videos, comments, idx, sinceFetch, last,
                   options, now, ytdlp, scraped, fetchLog, runNo, firstRun>>
    /\ UNCHANGED fetchVars
    /\ UNCHANGED rows

scrape_comments_handle ==
    /\ cmd = "scrape_comments"
    /\ pc = "handle"
    /\ LET selected == select_videos(options, videos)
       IN  /\ items' = IF selected.error THEN <<>> ELSE selected.videos
           /\ pc' = IF selected.error THEN "command_error"
                    ELSE IF selected.videos = <<>> THEN "done" ELSE "item"
    /\ UNCHANGED <<cmd, groups, profiles, videos, comments, idx, sinceFetch, last,
                   fetchLog, runNo, firstRun>>
    /\ UNCHANGED passVars
    /\ UNCHANGED fetchVars
    /\ UNCHANGED rows

Account(piece, name) ==
    [url |-> <<"https://www.tiktok.com/", "@", piece>>, name |-> name]

ProfilesFiles ==
    {[state |-> "missing", data |-> <<>>],
     [state |-> "invalid", data |-> <<>>],
     [state |-> "ok", data |-> <<>>],
     [state |-> "ok", data |-> <<[group |-> "g1", accounts |-> <<>>]>>],
     [state |-> "ok", data |-> <<[group |-> "g1", accounts |-> <<Account("p1", "n1")>>]>>],
     [state |-> "ok",
      data |-> <<[group |-> "g1",
                  accounts |-> <<Account("p1", "n1"), Account("p2", "n2")>>]>>]}

ProfileOptions ==
    [from_date : {<<>>, Text("2024-01-10"), Text("10/01/2024"), Text("2024-02-30")},
     days : {30},
     profiles : ProfilesFiles,
     debug : BOOLEAN,
     username : {"", "p1", "p9"}]

CommentOptions == [video_id : {"", "v1", "v9"}, profile : {"", "p1", "p9"}, limit : {0, 1}]

InitConfig ==
    /\ \/ cmd = "scrape_tiktok" /\ options \in ProfileOptions
       \/ cmd = "scrape_comments" /\ options \in CommentOptions
    /\ StoredVideos
    /\ comments = <<>>
    /\ items = <<>>
    /\ now = Day(2024, 1, 12)
    /\ cutoff_date = 0
    /\ idx = 1
    /\ pc = "handle"
    /\ sinceFetch = "start"
    /\ last = NoBatch
    /\ ytdlp = NoRun
    /\ scraped = [raised |-> FALSE, videos |-> <<>>]
    /\ fetchLog = <<>>
    /\ runNo = 1
    /\ firstRun = None
    /\ scraper = NoScraper
    /\ wire = <<>>

NextConfig ==
    \/ scrape_tiktok_handle
    \/ scrape_comments_handle
    \/ scrape_comments_item
    \/ scrape_comments_delay
    \/ scrape_tiktok_item
    \/ scrape_tiktok_delay

SpecConfig == InitConfig /\ [][NextConfig]_vars

(***************************************************************************)
(* Properties of the two passes.                                           *)
(***************************************************************************)
Ended == pc \in {"done", "aborted"}

C2_ParentSameVideo ==
    \A c \in DOMAIN comments :
        comments[c].parent_comment # None =>
            /\ comments[c].parent_comment \in DOMAIN comments
            /\ comments[comments[c].parent_comment].video = comments[c].video

\* C3: no item's failure takes handle() out of its loop, and the run is
\* completed only when every selected item has been attempted.
C3_FailureIsolation ==
    /\ pc # "aborted"
    /\ pc = "done" => idx = total + 1

\* C4: when handle() is about to fetch for an item other than the first, the
\* delay has elapsed since the previous item's fetch.
C4_DelayBetweenFetches ==
    (pc = "item" /\ idx > 1) => sinceFetch # "fetched"

\* The rows a comment batch writes last under each key.
FinalCommentWrites(video, fetched) ==
    LET writes == save_comments_writes(video, fetched)
    IN  {writes[i] : i \in {k \in 1..Len(writes) :
                              \A j \in (k + 1)..Len(writes) :
                                  writes[j].comment_id # writes[k].comment_id}}

\* C7: a batch that fails leaves the store as it was before the batch; a
\* batch that does not fail applies every record of the batch (under a key
\* written twice the later record stands) and nothing else.
C7_BatchAtomic ==
    /\ last.outcome \in {"raised", "fetch_raised"} => store = last.before
    /\ (last.outcome = "saved" /\ cmd = "scrape_comments") =>
          /\ \A w \in FinalCommentWrites(last.item, last.fetched) :
                /\ w.comment_id \in DOMAIN comments
                /\ comments[w.comment_id] = w.defaults
          /\ \A c \in DOMAIN comments :
                \/ \E w \in FinalCommentWrites(last.item, last.fetched) :
                       w.comment_id = c
                \/ /\ c \in DOMAIN last.before.comments
                   /\ comments[c] = last.before.comments[c]
          /\ <<groups, profiles, videos>>
               = <<last.before.groups, last.before.profiles, last.before.videos>>
    /\ (last.outcome = "saved" /\ cmd = "scrape_tiktok") =>
          LET username == extract_username(last.item.url)
          IN  /\ last.item.group \in groups
              /\ username \in DOMAIN profiles
              /\ profiles[username].name = last.item.name
              /\ profiles[username].profile_url = last.item.url
              /\ last.item.group \in profiles[username].groups
              /\ \A i \in 1..Len(last.fetched) :
                    /\ last.fetched[i].id \in DOMAIN videos
                    /\ (\A j \in (i + 1)..Len(last.fetched) :
                            last.fetched[j].id # last.fetched[i].id)
                       => videos[last.fetched[i].id]
                            = TikTokVideo(username, last.fetched[i])
              /\ \A v \in DOMAIN videos :
                    \/ \E i \in 1..Len(last.fetched) : last.fetched[i].id = v
                    \/ /\ v \in DOMAIN last.before.videos
                       /\ videos[v] = last.before.videos[v]
              /\ comments = last.before.comments

\* A comment batch failed at a record that is not its first.
C7_Witness ==
    /\ cmd = "scrape_comments"
    /\ last.outcome = "raised"
    /\ last.fetched[1].username # None
    /\ last.before.comments # <<>>

\* C15: no step of either pass removes a stored group name, profile
\* username, video id or comment id.
C15_NeverDeletes ==
    [][/\ groups \subseteq groups'
       /\ DOMAIN profiles \subseteq DOMAIN profiles'
       /\ DOMAIN videos \subseteq DOMAIN videos'
       /\ DOMAIN comments \subseteq DOMAIN comments']_vars

C15_Witness ==
    /\ cmd = "scrape_comments"
    /\ last.outcome = "saved"
    /\ \E c \in DOMAIN last.before.comments :
          /\ c \in DOMAIN comments
          /\ \A i \in 1..Len(last.fetched) :
                /\ last.fetched[i].comment_id # c
                /\ \A r \in 1..Len(last.fetched[i].replies) :
                      last.fetched[i].replies[r].comment_id # c

\* C16: a profile batch that commits leaves its profile a member of its
\* group, and no batch takes a profile out of a group it was in.
C16_MembershipAdditive ==
    (cmd = "scrape_tiktok" /\ last.outcome # "none") =>
        /\ \A u \in DOMAIN last.before.profiles :
              /\ u \in DOMAIN profiles
              /\ last.before.profiles[u].groups \subseteq profiles[u].groups
        /\ last.outcome = "saved" =>
              \E u \in DOMAIN profiles :
                  /\ profiles[u].profile_url = last.item.url
                  /\ last.item.group \in profiles[u].groups
                  /\ last.item.group \in groups

C16_Witness ==
    /\ cmd = "scrape_tiktok"
    /\ last.outcome = "saved"
    /\ \E u \in DOMAIN last.before.profiles :
          /\ last.before.profiles[u].groups = {"g1", "g2"}
          /\ profiles[u].groups = {"g1", "g2"}
          /\ profiles[u].profile_url = last.item.url

\* C17: after a profile batch that commits, the stored video of every
\* fetched id has the description, counters and posted_at of the (last)
\* fetched record of that id, and the batch's profile as its profile.
C17_VideoUpsertAuthoritative ==
    (cmd = "scrape_tiktok" /\ last.outcome = "saved") =>
        \A i \in 1..Len(last.fetched) :
            (\A j \in (i + 1)..Len(last.fetched) : last.fetched[j].id # last.fetched[i].id)
            => /\ last.fetched[i].id \in DOMAIN videos
               /\ LET stored == videos[last.fetched[i].id]
                      fetched == last.fetched[i]
                  IN  /\ stored.profile = extract_username(last.item.url)
                      /\ stored.description = fetched.description
                      /\ stored.play_count = fetched.play_count
                      /\ stored.like_count = fetched.like_count
                      /\ stored.comment_count = fetched.comment_count
                      /\ stored.share_count = fetched.share_count
                      /\ stored.posted_at = fetched.post_date

C17_Witness ==
    /\ cmd = "scrape_tiktok"
    /\ last.outcome = "saved"
    /\ \E i \in 1..Len(last.fetched) :
          /\ last.fetched[i].id \in DOMAIN last.before.videos
          /\ last.before.videos[last.fetched[i].id].profile
                # videos[last.fetched[i].id].profile
          /\ last.before.videos[last.fetched[i].id].play_count
                # videos[last.fetched[i].id].play_count

\* The table after the first n writes of a batch, and whether one raised.
AfterWrites(n) ==
    apply_comment_writes(last.before.comments,
                         SubSeq(save_comments_writes(last.item, last.fetched), 1, n), 0)

\* The number of writes made before the k-th fetched comment is reached.
WritesBefore(k) == RecordCount(SubSeq(last.fetched, 1, k - 1))

InitialStore ==
    IF cmd = "scrape_comments" THEN SeededStore
    ELSE [groups |-> {}, profiles |-> <<>>, videos |-> <<>>, comments |-> <<>>]

\* A single run that nothing interrupts, from item i on and from the store
\* db, over the upstream data the log holds: the store it ends with, and
\* "aborted" when an exception ends it before the log does.
RECURSIVE uninterrupted(_, _)
uninterrupted(db, i) ==
    IF i > Len(fetchLog) THEN [store |-> db, pc |-> "done"]
    ELSE IF cmd = "scrape_comments"
    THEN LET saved == save_comments(db.comments, items[i], fetchLog[i])
         IN  IF fetchLog[i] = <<>> THEN uninterrupted(db, i + 1)
             ELSE IF saved.raised
             THEN [store |-> [db EXCEPT !.comments = saved.objects], pc |-> "aborted"]
             ELSE uninterrupted([db EXCEPT !.comments = saved.objects], i + 1)
    ELSE LET username == extract_username(items[i].url)
             saved == save_to_database(db, username, items[i].name, items[i].group,
                                       items[i].url, fetchLog[i].videos,
                                       fetchLog[i].fault)
         IN  IF username = None \/ username = "" THEN uninterrupted(db, i + 1)
             ELSE IF fetchLog[i].raised THEN [store |-> db, pc |-> "aborted"]
             ELSE IF saved.raised THEN [store |-> saved.db, pc |-> "aborted"]
             ELSE uninterrupted(saved.db, i + 1)

\* C19: a run that is terminated leaves in the store the effects of the
\* batches it committed and nothing else; when the pass is then run again
\* against the same upstream data, it ends, at the same place, with the store
\* a single uninterrupted run over that data ends with.
C19_Resumable ==
    /\ pc = "terminated" =>
          uninterrupted(InitialStore, 1) = [store |-> store, pc |-> "done"]
    /\ (runNo = 2 /\ firstRun.pc = "terminated" /\ Ended) =>
          /\ uninterrupted(InitialStore, 1) = [store |-> store, pc |-> pc]
          /\ pc = "done" => Len(fetchLog) = total

C19_Witness ==
    /\ runNo = 2
    /\ firstRun.pc = "terminated"
    /\ pc = "done"
    /\ firstRun.store # InitialStore
    /\ store # firstRun.store

\* C20: the delay is only ever waited with an item still to come, and the
\* step that processes the last item ends the run (completed, or left by an
\* exception) without a delay.
C20_NoDelayAfterLastItem ==
    /\ [](pc = "delay" => idx < total)
    /\ [][(pc = "item" /\ idx = total /\ pc' # "terminated")
             => pc' \in {"done", "aborted"}]_vars

C20_Witness ==
    /\ pc = "done"
    /\ runNo = 1
    /\ total = 2
    /\ last.outcome = "saved"
    /\ last.item = items[total]
    /\ sinceFetch = "fetched"

(***************************************************************************)
(* Properties of scrape_profile_ytdlp.                                     *)
(***************************************************************************)
IsCountText(text) == text = <<>> \/ text = NA \/ py_int(text).ok

\* A line as the schema describes it: six or seven fields, an upload date of
\* eight digits that is a date, every counter a number, "NA" or empty.
WellFormedLine(parts) ==
    /\ Len(parts) \in {6, 7}
    /\ Len(parts[3]) = 8
    /\ AllDigits(parts[3])
    /\ datetime(DigitsValue(SubSeq(parts[3], 1, 4)), DigitsValue(SubSeq(parts[3], 5, 6)),
                DigitsValue(SubSeq(parts[3], 7, 8))).ok
    /\ \A k \in 4..Len(parts) : IsCountText(parts[k])

UploadDay(parts) ==
    DayOf(datetime(DigitsValue(SubSeq(parts[3], 1, 4)), DigitsValue(SubSeq(parts[3], 5, 6)),
                   DigitsValue(SubSeq(parts[3], 7, 8))).ticks)

OnOrAfterCutoffDay(parts) == UploadDay(parts) >= DayOf(cutoff_date)

VideoIdsOf(video_list) == [i \in 1..Len(video_list) |-> video_list[i].id]

LineIdsOf(lines) == [i \in 1..Len(lines) |-> lines[i][1]]

ToolSucceeded == pc # "scrape" /\ ytdlp.exc = "none" /\ ytdlp.returncode = 0

\* C5: of the well-formed lines yt-dlp printed, the fetched result holds
\* exactly those whose upload day is on or after the cutoff's day, whether
\* the cutoff came from --from-date or from --days.
C5_CutoffInclusive ==
    (ToolSucceeded /\ \A i \in 1..Len(ytdlp.stdout) : WellFormedLine(ytdlp.stdout[i]))
        => VideoIdsOf(scraped.videos)
             = LineIdsOf(SelectSeq(ytdlp.stdout, OnOrAfterCutoffDay))

(***************************************************************************)
(* Properties of the comment fetcher.                                      *)
(***************************************************************************)
IsExchange(e) == e.op \in {"comments", "replies"}

SameStream(e, f) ==
    /\ IsExchange(e)
    /\ e.op = f.op
    /\ e.aweme_id = f.aweme_id
    /\ e.comment_id = f.comment_id

CommentStream(video) ==
    LET OfVideo(e) == e.op = "comments" /\ e.aweme_id = video
    IN  SelectSeq(wire, OfVideo)

ReplyStream(comment_id) ==
    LET OfComment(e) == e.op = "replies" /\ e.comment_id = comment_id
    IN  SelectSeq(wire, OfComment)

PageItems(events) == Flatten([i \in 1..Len(events) |-> events[i].response.comments])

IdsOf(records) == [i \in 1..Len(records) |-> records[i].comment_id]

UpstreamIdsOf(records) == [i \in 1..Len(records) |-> records[i].cid]

Front(events) == SubSeq(events, 1, Len(events) - 1)

Range(f) == {f[x] : x \in DOMAIN f}

\* An upstream page that holds no items though more are announced.
EmptyPage(e) ==
    /\ IsExchange(e)
    /\ e.response.ok
    /\ e.response.comments = <<>>
    /\ e.op = "comments" => e.response.has_more = 1

\* C6: after a page with no items no further page of the same stream is
\* requested, for the comments of a video and for the replies of a comment.
C6_StopsAfterEmptyPage ==
    \A i \in 1..Len(wire) : \A j \in (i + 1)..Len(wire) :
        ~(EmptyPage(wire[i]) /\ SameStream(wire[i], wire[j]))

\* A page that failed: the request failed, or a comment in the page has no
\* reply count to compare with 0.
FailedPage(e) ==
    /\ IsExchange(e)
    /\ \/ ~e.response.ok
       \/ \E k \in 1..Len(e.response.comments) :
             e.response.comments[k].reply_comment_total = <<>>

PartialSet(result, events) ==
    (events # <<>> /\ FailedPage(events[Len(events)]))
        => IdsOf(result) = UpstreamIdsOf(PageItems(Front(events)))

\* The top-level comments the scraper holds: returned ones and those of the
\* page being parsed.
HeldComments == Range(scraper.all_comments) \cup Range(scraper.parsed_comments)

\* C8: a failed page raises nothing and ends its stream: no further page of
\* the stream is requested, the stream's result is the items of the pages
\* before the failed one, and handle() goes on with that result.
C8_PageFailureEndsStream ==
    /\ scraper.at # "raised"
    /\ pc = "aborted" => last.outcome = "raised"
    /\ \A i \in 1..Len(wire) : \A j \in (i + 1)..Len(wire) :
          ~(FailedPage(wire[i]) /\ SameStream(wire[i], wire[j]))
    /\ scraper.at = "returned"
          => PartialSet(scraper.all_comments, CommentStream(items[idx]))
    /\ \A c \in HeldComments : PartialSet(c.replies, ReplyStream(c.comment_id))
    /\ last.item # None
          => /\ PartialSet(last.fetched, CommentStream(last.item))
             /\ last.fetched = <<>> <=> last.outcome = "empty"

C8_Witness ==
    /\ scraper.at = "returned"
    /\ scraper.all_comments # <<>>
    /\ LET pages == CommentStream(items[idx])
       IN  /\ Len(pages) = 2
           /\ pages[2].response.ok
           /\ FailedPage(pages[2])
    /\ \E c \in Range(scraper.all_comments) :
          LET pages == ReplyStream(c.comment_id)
          IN  /\ Len(pages) = 2
              /\ FailedPage(pages[2])
              /\ c.replies # <<>>

\* C9: a top-level comment the scraper holds has, with reply count 0, no
\* reply request and no replies; with a reply count above 0, reply pages
\* requested one after another until one comes back empty, and the items of
\* the pages before it as its replies.
C9_RepliesByCount ==
    \A c \in HeldComments :
        LET pages == ReplyStream(c.comment_id)
        IN  /\ c.total_reply = 0 => (pages = <<>> /\ c.replies = <<>>)
            /\ c.total_reply > 0 =>
                  /\ pages # <<>>
                  /\ \A k \in 1..Len(pages) :
                        /\ pages[k].cursor = (k - 1) * size
                        /\ (pages[k].response.comments = <<>>) <=> (k = Len(pages))
                  /\ IdsOf(c.replies) = UpstreamIdsOf(PageItems(pages))

C9_Witness ==
    /\ scraper.at = "returned"
    /\ \E c \in Range(scraper.all_comments) : c.total_reply = 0
    /\ \E c \in Range(scraper.all_comments) :
          /\ c.total_reply > 0
          /\ Len(ReplyStream(c.comment_id)) = 2
          /\ Len(c.replies) = 1

\* The reply fetch for item k of page e failed on its first page.
ReplyFetchErrored(e, k) ==
    LET item == e.response.comments[k]
    IN  /\ item.reply_comment_total # <<>>
        /\ item.reply_comment_total[1] > 0
        /\ ReplyStream(item.cid) # <<>>
        /\ ~ReplyStream(item.cid)[1].response.ok

PageParses(e) ==
    \A k \in 1..Len(e.response.comments) :
        e.response.comments[k].reply_comment_total # <<>>

\* The comment of item k of page e is in the result with no replies, and so
\* are the comments of the items after it in the page.
KeptWithoutReplies(result, e, k) ==
    /\ \E c \in Range(result) :
          c.comment_id = e.response.comments[k].cid /\ c.replies = <<>>
    /\ \A m \in (k + 1)..Len(e.response.comments) :
          \E c \in Range(result) : c.comment_id = e.response.comments[m].cid

Upserted(video, comment_id) ==
    /\ comment_id \in DOMAIN comments
    /\ comments[comment_id].video = video
    /\ comments[comment_id].parent_comment = None

ListedAccounts ==
    LET data == options.profiles.data
        Kept(g) == IF options.debug /\ Len(data[g].accounts) > 1
                   THEN 1 ELSE Len(data[g].accounts)
    IN  UNION {{<<g, a>> : a \in 1..Kept(g)} : g \in 1..Len(data)}

ConfigurationError ==
    IF cmd = "scrape_tiktok"
    THEN \/ options.profiles.state \in {"missing", "invalid"}
         \/ options.from_date # <<>> /\ ~strptime(options.from_date).ok
         \/ ListedAccounts = {}
         \/ /\ options.username # ""
            /\ \A ga \in ListedAccounts :
                  options.profiles.data[ga[1]].accounts[ga[2]].url[3] # options.username
    ELSE \/ options.video_id # "" /\ options.video_id \notin DOMAIN SeededStore.videos
         \/ /\ options.profile # ""
            /\ \A v \in DOMAIN SeededStore.videos :
                  \/ SeededStore.videos[v].profile # options.profile
                  \/ options.video_id \notin {"", v}

\* C11: under a configuration error the run never enters its loop: it ends
\* with a CommandError, no fetch is made and the store is as it was.
C11_ConfigurationErrorAborts ==
    ConfigurationError =>
        /\ pc \in {"handle", "command_error"}
        /\ sinceFetch = "start"
        /\ wire = <<>>
        /\ last = NoBatch
        /\ store = SeededStore

C11_Witness ==
    /\ pc = "command_error"
    /\ cmd = "scrape_tiktok"
    /\ options.profiles.state = "ok"
    /\ ListedAccounts # {}
    /\ options.username = ""

\* yt-dlp exited non-zero with an error and no warning, or timed out.
ExtractorFailed ==
    /\ pc \in {"returned", "next", "aborted"}
    /\ \/ ytdlp.exc = "TimeoutExpired"
       \/ /\ ytdlp.exc = "none"
          /\ ytdlp.returncode # 0
          /\ "error:" \in ytdlp.stderr
          /\ "warning:" \notin ytdlp.stderr

\* C12: when yt-dlp fails with an error or times out, the fetch returns no
\* videos and raises nothing, and handle() goes on to the next profile
\* with no video written.
C12_ExtractorFailureYieldsNothing ==
    ExtractorFailed =>
        /\ scraped = [raised |-> FALSE, videos |-> <<>>]
        /\ pc # "aborted"
        /\ videos = <<>>

C12_Witness ==
    /\ ExtractorFailed
    /\ ytdlp.exc = "none"
    /\ ytdlp.stdout # <<>>
    /\ pc = "next"

UploadTicks(parts) == UploadDay(parts) * TicksPerDay

LongLines == {i \in 1..Len(ytdlp.stdout) : Len(ytdlp.stdout[i]) >= 6}

\* C13: a line of fewer than 6 fields raises nothing and adds no video, and
\* every well-formed line after it that is not before the cutoff is in the
\* result.
C13_ShortLineSkipped ==
    ToolSucceeded =>
        \A i \in 1..Len(ytdlp.stdout) :
            Len(ytdlp.stdout[i]) < 6 =>
                /\ ~scraped.raised
                /\ Len(scraped.videos) <= Cardinality(LongLines)
                /\ \A j \in (i + 1)..Len(ytdlp.stdout) :
                      (WellFormedLine(ytdlp.stdout[j])
                       /\ UploadTicks(ytdlp.stdout[j]) >= cutoff_date)
                          => \E k \in 1..Len(scraped.videos) :
                                /\ scraped.videos[k].id = ytdlp.stdout[j][1]
                                /\ scraped.videos[k].post_date
                                      = UploadTicks(ytdlp.stdout[j])

C13_Witness ==
    /\ ToolSucceeded
    /\ Len(ytdlp.stdout) = 2
    /\ Len(ytdlp.stdout[1]) = 5
    /\ WellFormedLine(ytdlp.stdout[2])
    /\ Len(scraped.videos) = 1

ValidDate(text) ==
    /\ Len(text) = 8
    /\ AllDigits(text)
    /\ datetime(DigitsValue(SubSeq(text, 1, 4)), DigitsValue(SubSeq(text, 5, 6)),
                DigitsValue(SubSeq(text, 7, 8))).ok

\* The lines of 6 fields or more that no cutoff excludes: the upload date
\* is "NA" or malformed, or it is a date not before the cutoff.
LinesToKeep ==
    {i \in LongLines :
        ValidDate(ytdlp.stdout[i][3]) => UploadTicks(ytdlp.stdout[i]) >= cutoff_date}

\* C14: every line of 6 fields or more gives a video record, whatever "NA"
\* or malformed fields it has, unless its upload date is before the cutoff.
C14_FieldsCoerced ==
    ToolSucceeded => Len(scraped.videos) = Cardinality(LinesToKeep)

(***************************************************************************)
(* Properties of the store under both passes.                              *)
(***************************************************************************)
NoTwoRows(table_rows) ==
    \A i, j \in 1..Len(table_rows) : table_rows[i] = table_rows[j] => i = j

\* C21: whatever batches have run, no table holds two rows with the same
\* natural key: one Group per name, one Profile per username, one Video per
\* video_id, one Comment per comment_id; and the rows are those the tables
\* show by key.
C21_NaturalKeysUnique ==
    /\ NoTwoRows(rows.groups) /\ Range(rows.groups) = groups
    /\ NoTwoRows(rows.profiles) /\ Range(rows.profiles) = DOMAIN profiles
    /\ NoTwoRows(rows.videos) /\ Range(rows.videos) = DOMAIN videos
    /\ NoTwoRows(rows.comments) /\ Range(rows.comments) = DOMAIN comments

\* A profile batch that committed after fetching the same new video_id twice.
C21_Witness ==
    /\ cmd = "scrape_tiktok"
    /\ last.outcome = "saved"
    /\ \E i, j \in 1..Len(last.fetched) :
          /\ i < j
          /\ last.fetched[i].id = last.fetched[j].id
          /\ last.fetched[i].id \notin DOMAIN last.before.videos
          /\ HasRow(rows.videos, last.fetched[i].id)

(***************************************************************************)
(* Properties of the counters a profile is saved with.                     *)
(***************************************************************************)
\* The counter a text stands for: its number, 0 when it is absent or no
\* number.
CounterOrZero(text) == IF py_int(text).ok THEN py_int(text).value ELSE 0

\* The lines of 6 fields or more with an upload date on or after the cutoff.
DatedLines ==
    {i \in LongLines :
        /\ ValidDate(ytdlp.stdout[i][3])
        /\ UploadTicks(ytdlp.stdout[i]) >= cutoff_date}

\* C22: every stored video has four counters that are numbers not below 0;
\* and after a save that commits, the video of every dated line is stored
\* with the counters of the (last) line of its id, 0 standing for a counter
\* that is absent or not a number.
C22_CountersNonNegative ==
    /\ \A v \in DOMAIN videos :
          /\ videos[v].play_count \in Nat
          /\ videos[v].like_count \in Nat
          /\ videos[v].comment_count \in Nat
          /\ videos[v].share_count \in Nat
    /\ (ToolSucceeded /\ pc = "next") =>
          \A i \in DatedLines :
              LET parts == ytdlp.stdout[i]
              IN  /\ parts[1] \in DOMAIN videos
                  /\ (\A j \in DatedLines : j > i => ytdlp.stdout[j][1] # parts[1])
                     => /\ videos[parts[1]].like_count = CounterOrZero(parts[4])
                        /\ videos[parts[1]].play_count = CounterOrZero(parts[5])
                        /\ videos[parts[1]].comment_count = CounterOrZero(parts[6])
                        /\ videos[parts[1]].share_count =
                              (IF Len(parts) > 6 THEN CounterOrZero(parts[7]) ELSE 0)

(***************************************************************************)
(* Properties of the requests the comment fetcher sends.                   *)
(***************************************************************************)
\* The pause of the stream a request belongs to.
PauseOf(e) == IF e.op = "comments" THEN PageSleep ELSE ReplySleep

\* The request at k is not the first of its stream.
LaterPage(k) == \E i \in 1..(k - 1) : SameStream(wire[i], wire[k])

\* C23: a request for a page that is not the first of its stream (the
\* comments of a video, the replies of a comment) comes right after a sleep
\* of the stream's fixed length.  (Every request is logged together with
\* its answer: session.get blocks, and the calls are made one after the
\* other.)
C23_PauseBetweenPages ==
    \A k \in 1..Len(wire) :
        (IsExchange(wire[k]) /\ LaterPage(k)) =>
            /\ wire[k - 1].op = "sleep"
            /\ wire[k - 1].seconds = PauseOf(wire[k])
            /\ wire[k - 1].seconds > 0

\* Two pages of a video's comments with two pages of a comment's replies
\* requested between them.
C23_Witness ==
    \E i, j, k, l \in 1..Len(wire) :
        /\ i < j /\ j < k /\ k < l
        /\ wire[i].op = "comments" /\ SameStream(wire[i], wire[l])
        /\ wire[j].op = "replies" /\ SameStream(wire[j], wire[k])

\* The ids of the items the reply endpoint has answered with.
ReplyEndpointIds ==
    UNION {Range(UpstreamIdsOf(wire[i].response.comments)) :
              i \in {k \in 1..Len(wire) : wire[k].op = "replies"}}

\* The ids of the items the comment endpoint has answered with before k.
CommentEndpointIdsBefore(k) ==
    UNION {Range(UpstreamIdsOf(wire[i].response.comments)) :
              i \in {j \in 1..(k - 1) : wire[j].op = "comments"}}

\* C24: the replies of a reply are never asked for: every request to the
\* reply endpoint names a comment that an earlier page of top-level comments
\* held, and none that the reply endpoint gave, whatever reply count the
\* replies report.
C24_RepliesNotExpanded ==
    \A k \in 1..Len(wire) :
        wire[k].op = "replies" =>
            /\ wire[k].comment_id \in CommentEndpointIdsBefore(k)
            /\ wire[k].comment_id \notin ReplyEndpointIds

\* A reply that reports replies of its own was fetched, and the fetch of the
\* video has returned.
C24_Witness ==
    /\ scraper.at = "returned"
    /\ \E k \in 1..Len(wire) :
          /\ wire[k].op = "replies"
          /\ \E i \in 1..Len(wire[k].response.comments) :
                /\ wire[k].response.comments[i].reply_comment_total = <<2>>
                /\ \E c \in 1..Len(scraper.all_comments) :
                      \E r \in 1..Len(scraper.all_comments[c].replies) :
                          /\ scraper.all_comments[c].replies[r].comment_id
                                = wire[k].response.comments[i].cid
                          /\ scraper.all_comments[c].replies[r].total_reply = 2

(***************************************************************************)
(* Properties of what the two save methods return.                         *)
(***************************************************************************)
\* What the save of the last batch returned to handle().
Returned ==
    IF cmd = "scrape_comments"
    THEN save_comments_return(
             save_comments(last.before.comments, last.item, last.fetched))
    ELSE save_to_database_return(
             save_to_database(last.before, extract_username(last.item.url),
                              last.item.name, last.item.group, last.item.url,
                              last.fetched, 0))

\* The records the last batch upserted, and those of them that were INSERTs.
UpsertedCount ==
    IF cmd = "scrape_comments" THEN RecordCount(last.fetched) ELSE Len(last.fetched)

CreatedCount ==
    IF cmd = "scrape_comments"
    THEN Cardinality({w.comment_id : w \in FinalCommentWrites(last.item, last.fetched)}
                     \ DOMAIN last.before.comments)
    ELSE Cardinality(Range(VideoIdsOf(last.fetched)) \ DOMAIN last.before.videos)

\* C25: the save of a batch that commits returns two counts to handle(): the
\* records it created, as many as the batch has keys that were not stored
\* when they were upserted, and the records it updated, the two adding up to
\* the number of records of the batch.
C25_CountsReturned ==
    (cmd \in {"scrape_comments", "scrape_tiktok"} /\ last.outcome = "saved") =>
        \E created, updated \in DOMAIN Returned :
            /\ created # updated
            /\ Returned[created] = CreatedCount
            /\ Returned[created] + Returned[updated] = UpsertedCount

\* What get_comments returned for a page: nothing, with has_more 0, for a
\* failed page.
PageReturned(e) ==
    IF FailedPage(e) THEN [comments |-> <<>>, has_more |-> 0]
    ELSE [comments |-> e.response.comments, has_more |-> e.response.has_more]

ReturnedItems(events) ==
    Flatten([k \in 1..Len(events) |-> PageReturned(events[k]).comments])

\* The pages of a stream are requested at cursors 0, size, 2 * size, ...
CursorsInOrder(events) == \A k \in 1..Len(events) : events[k].cursor = (k - 1) * size

\* A finished stream of top-level comments: every page but the last reported
\* has_more 1 and, from the second on, held items; the last one reports
\* another has_more, or is a page after the first that holds none; the
\* result is the items of the pages in order.
CommentsPaginated(result, events) ==
    /\ events # <<>>
    /\ CursorsInOrder(events)
    /\ \A k \in 1..(Len(events) - 1) :
          /\ PageReturned(events[k]).has_more = 1
          /\ k > 1 => PageReturned(events[k]).comments # <<>>
    /\ \/ PageReturned(events[Len(events)]).has_more # 1
       \/ Len(events) > 1 /\ PageReturned(events[Len(events)]).comments = <<>>
    /\ IdsOf(result) = UpstreamIdsOf(ReturnedItems(events))

\* A finished stream of replies: every page but the last held items, the
\* last one holds none or failed; the result is the items of the pages in
\* order.
RepliesPaginated(result, events) ==
    /\ CursorsInOrder(events)
    /\ \A k \in 1..(Len(events) - 1) : PageReturned(events[k]).comments # <<>>
    /\ events # <<>> => PageReturned(events[Len(events)]).comments = <<>>
    /\ IdsOf(result) = UpstreamIdsOf(ReturnedItems(events))

C27_TwoLevels ==
    \A c \in DOMAIN comments :
        comments[c].parent_comment # None =>
            /\ comments[c].parent_comment \in DOMAIN comments
            /\ comments[comments[c].parent_comment].parent_comment = None

(***************************************************************************)
(* Properties of handle() when a fetch brings nothing.                     *)
(***************************************************************************)
\* The fetch of a video's comments yielded none: the first page failed, or
\* no page it was answered with held an item.
YieldedNothing(video) ==
    LET pages == CommentStream(video)
    IN  /\ pages # <<>>
        /\ FailedPage(pages[1]) \/ ReturnedItems(pages) = <<>>

\* C28: a failure on the first page of a video's comments raises nothing;
\* when the fetch of a video has yielded no comments, handle() skips the
\* video, and the store is what it was before the fetch, the comments stored
\* earlier for that video included.
C28_NothingFetchedNothingWritten ==
    /\ (scraper.at = "raised" \/ pc = "aborted")
          => ~YieldedNothing(items[idx])
    /\ (last.outcome # "none" /\ YieldedNothing(last.item))
          => last.outcome = "empty"
    /\ last.outcome = "empty" =>
          /\ YieldedNothing(last.item)
          /\ store = last.before

\* The first page of v1's comments failed, v1 was skipped, and the comment
\* stored for v1 by an earlier pass is stored as it was.
C28_Witness ==
    /\ last.outcome = "empty"
    /\ last.item = "v1"
    /\ FailedPage(CommentStream("v1")[1])
    /\ "c0" \in DOMAIN comments
    /\ comments["c0"] = EarlierComments["c0"]
    /\ comments["c0"].video = last.item

(***************************************************************************)
(* Properties of the profile pass when a fetch brings no video.            *)
(***************************************************************************)
\* C29: when scrape_profile_ytdlp returns no video for a profile, the save
\* commits: the group is stored, the profile is stored with the listed name
\* and URL and is a member of the group besides the groups it was in, and
\* the stored videos are those stored before.
C29_NoVideosStillSavesProfile ==
    (/\ cmd = "scrape_tiktok"
     /\ last.outcome \in {"saved", "raised"}
     /\ last.fetched = <<>>) =>
        LET username == extract_username(last.item.url)
        IN  /\ last.outcome = "saved"
            /\ last.item.group \in groups
            /\ username \in DOMAIN profiles
            /\ profiles[username].name = last.item.name
            /\ profiles[username].profile_url = last.item.url
            /\ last.item.group \in profiles[username].groups
            /\ username \in DOMAIN last.before.profiles
                  => last.before.profiles[username].groups
                        \subseteq profiles[username].groups
            /\ videos = last.before.videos

\* A profile stored under another name and group, with a video, was saved
\* again after a fetch that brought no video.
C29_Witness ==
    /\ cmd = "scrape_tiktok"
    /\ last.outcome = "saved"
    /\ last.fetched = <<>>
    /\ last.before.videos # <<>>
    /\ last.item.group \notin last.before.groups
    /\ \E u \in DOMAIN last.before.profiles :
          /\ u = extract_username(last.item.url)
          /\ last.before.profiles[u].name # last.item.name
          /\ profiles[u].name = last.item.name
          /\ \E v \in DOMAIN videos : videos[v].profile = u

(***************************************************************************)
(* Properties of the video id the reply requests carry.                    *)
(***************************************************************************)
\* The requests for top-level comments, before k, whose page held the
\* comment the request k asks the replies of.
PagesHolding(k) ==
    {j \in 1..(k - 1) :
        /\ wire[j].op = "comments"
        /\ wire[k].comment_id \in Range(UpstreamIdsOf(wire[j].response.comments))}

\* C30: every request to the reply endpoint carries as item_id the video
\* that was asked for in the request for top-level comments whose page held
\* the comment being expanded, in every video of the run.
C30_ReplyRequestNamesItsVideo ==
    \A k \in 1..Len(wire) :
        wire[k].op = "replies" =>
            /\ PagesHolding(k) # {}
            /\ \A j \in PagesHolding(k) : wire[k].item_id = wire[j].aweme_id

\* Replies were asked for under the first video and then under the second.
C30_Witness ==
    \E i \in 1..Len(wire) : \E k \in (i + 1)..Len(wire) :
        /\ wire[i].op = "replies" /\ wire[i].item_id = "v1"
        /\ wire[k].op = "replies" /\ wire[k].item_id = "v2"

====
